---- MODULE Spec2Model ----
(***************************************************************************)
(* Model of the WordPress QA screenshot tool: the batch scheduler of       *)
(* src/src/run.ts (main) and the page check of worker.ts / utils.ts as     *)
(* listed in src/designdoc.md (checkPage, captureMultiPartScreenshots,     *)
(* mergeConfig, expandPageJobs, urlToSlug, deviceToSlug).                  *)
(***************************************************************************)
EXTENDS Integers, Sequences, FiniteSets, TLC

(***************************************************************************)
(* Program constants and bounds of the model.                              *)
(***************************************************************************)
WORKER_CONCURRENCY == 5

SlowThresholdMs == 5000

\* number of pages of the scheduler configurations
NumPages == 6

\* most findings the observers of one page record (both logs together)
MaxLog == 2

\* tallest document measured in the capture runs
MaxHeight == 9

\* largest maxScreenshotHeight of the capture runs
MaxM == 4

\* most pages of the expansion configurations
MaxPages == 2

(***************************************************************************)
(* Small helpers for JavaScript values.                                    *)
(***************************************************************************)
Undefined == <<>>

Some(v) == <<v>>

Min(a, b) == IF a < b THEN a ELSE b

\* String.prototype.includes
Includes(s, p) ==
    \E a \in 1..(Len(s) - Len(p) + 1) : SubSeq(s, a, a + Len(p) - 1) = p

RECURSIVE Join(_, _)
\* Array.prototype.join
Join(seq, sep) ==
    IF seq = <<>> THEN ""
    ELSE IF Len(seq) = 1 THEN seq[1]
    ELSE seq[1] \o sep \o Join(Tail(seq), sep)

\* Math.ceil(a / b) for positive integers
Ceil(a, b) == (a + b - 1) \div b

\* an Error object with a message, and a thrown value that is no Error
Err(msg) == [isError |-> TRUE, message |-> msg]

NonError == [isError |-> FALSE, message |-> ""]

(***************************************************************************)
(* utils.ts                                                                *)
(***************************************************************************)
\* a merge that appends the page's lists to the default's
mergeConfigConcat(defaultConfig, pageConfig) ==
    [f \in (DOMAIN defaultConfig) \cup (DOMAIN pageConfig) |->
        IF f \in DOMAIN pageConfig
        THEN IF f \in {"devices", "requiredSelectors", "waitFor"} /\ f \in DOMAIN defaultConfig
             THEN defaultConfig[f] \o pageConfig[f]
             ELSE pageConfig[f]
        ELSE defaultConfig[f]]

\* { ...defaultConfig, ...pageConfig }
mergeConfig(defaultConfig, pageConfig) ==
    [f \in (DOMAIN defaultConfig) \cup (DOMAIN pageConfig) |->
        IF f \in DOMAIN pageConfig THEN pageConfig[f] ELSE defaultConfig[f]]

RECURSIVE expandFromFirstDevice(_, _, _)
\* an expansion that makes one job per page, for its first device
expandFromFirstDevice(defaultConfig, pages, p) ==
    IF p > Len(pages) THEN <<>>
    ELSE LET url == pages[p][1]
             mergedConfig == mergeConfig(defaultConfig, pages[p][2])
         IN  [d \in 1..Min(1, Len(mergedConfig.devices)) |->
                 [url |-> url, device |-> mergedConfig.devices[d],
                  config |-> mergedConfig]]
             \o expandFromFirstDevice(defaultConfig, pages, p + 1)

RECURSIVE expandFrom(_, _, _)
\* the loop of expandPageJobs from page p on; pages is the entry list of
\* config.pages in iteration order, each entry <<url, pageConfig>>
expandFrom(defaultConfig, pages, p) ==
    IF p > Len(pages) THEN <<>>
    ELSE LET url == pages[p][1]
             mergedConfig == mergeConfig(defaultConfig, pages[p][2])
         IN  [d \in 1..Len(mergedConfig.devices) |->
                 [url |-> url, device |-> mergedConfig.devices[d],
                  config |-> mergedConfig]]
             \o expandFrom(defaultConfig, pages, p + 1)

expandPageJobs(config) == expandFrom(config.default, config.pages, 1)

\* urlToSlug for a parsed URL [host: labels, path: segments]
urlToSlug(url) ==
    Join(url.host, "-") \o "-" \o
        (IF url.path = <<>> THEN "home" ELSE Join(url.path, "-"))

UpperCase == "ABCDEFGHIJKLMNOPQRSTUVWXYZ"

LowerCase == "abcdefghijklmnopqrstuvwxyz"

Digits == "0123456789"

CharAt(s, n) == SubSeq(s, n, n)

\* String.prototype.toLowerCase, letter by letter
lowerOf ==
    [c \in {CharAt(UpperCase, n) : n \in 1..Len(UpperCase)} |->
        CharAt(LowerCase, CHOOSE n \in 1..Len(UpperCase) : CharAt(UpperCase, n) = c)]

toLowerChar(c) == IF c \in DOMAIN lowerOf THEN lowerOf[c] ELSE c

\* the characters of [a-z0-9]
slugChars ==
    {CharAt(LowerCase, n) : n \in 1..Len(LowerCase)}
    \cup {CharAt(Digits, n) : n \in 1..Len(Digits)}

IsSlugChar(c) == c \in slugChars

RECURSIVE slugFrom(_, _, _)
\* device.toLowerCase().replace(/[^a-z0-9]+/g, '-') from character n on;
\* inRun says the previous character was already replaced
slugFrom(s, n, inRun) ==
    IF n > Len(s) THEN ""
    ELSE LET c == toLowerChar(CharAt(s, n))
         IN  IF IsSlugChar(c) THEN c \o slugFrom(s, n + 1, FALSE)
             ELSE IF inRun THEN slugFrom(s, n + 1, TRUE)
             ELSE "-" \o slugFrom(s, n + 1, TRUE)

deviceToSlug(device) == slugFrom(device, 1, FALSE)

(***************************************************************************)
(* worker.ts: the values checkPage computes.                               *)
(***************************************************************************)
genericErrorPatterns ==
    << "Failed to load resource: the server responded with a status of 401",
       "Failed to load resource: the server responded with a status of 403",
       "Content Security Policy",
       "CSP" >>

shouldIgnoreConsoleError(text) ==
    \E n \in 1..Len(genericErrorPatterns) : Includes(text, genericErrorPatterns[n])

ignorePatterns ==
    << "google-analytics.com", "googletagmanager.com", "analytics.google.com",
       "doubleclick.net", "facebook.com", "facebook.net", "linkedin.com",
       "twitter.com", "google.com/ccm", "ads.linkedin.com", "recaptcha",
       "csp.withgoogle.com" >>

shouldIgnoreUrl(url) ==
    \E n \in 1..Len(ignorePatterns) : Includes(url, ignorePatterns[n])

\* page.on('console'): the consoleErrors array after the handler ran
onConsole(consoleErrors, msg) ==
    IF msg.level = "error" /\ ~shouldIgnoreConsoleError(msg.text)
    THEN Append(consoleErrors, msg.text)
    ELSE consoleErrors

\* page.on('pageerror')
onPageError(consoleErrors, error) ==
    IF ~shouldIgnoreConsoleError(error.text)
    THEN Append(consoleErrors, error.text)
    ELSE consoleErrors

\* page.on('response')
onResponse(networkFailures, response) ==
    IF response.status >= 400 /\ ~shouldIgnoreUrl(response.url)
    THEN Append(networkFailures, ToString(response.status) \o " " \o response.url)
    ELSE networkFailures

\* page.on('requestfailed')
onRequestFailed(networkFailures, request) ==
    IF ~shouldIgnoreUrl(request.url)
    THEN Append(networkFailures, "Failed: " \o request.url)
    ELSE networkFailures

\* `Status ${response?.status() || 'unknown'}`; response is Undefined (null)
\* or Some(status)
statusError(response) ==
    "Status " \o (IF response = Undefined \/ response[1] = 0
                  THEN "unknown" ELSE ToString(response[1]))

\* a catch block that records the message of every Error as it is
catchErrorRaw(error) ==
    IF error.isError THEN error.message ELSE "Unknown error"

\* the catch block of checkPage: the error it records for a thrown value
catchError(error) ==
    IF error.isError
    THEN IF Includes(error.message, "Timeout") THEN "Timeout exceeded"
         ELSE error.message
    ELSE "Unknown error"

RECURSIVE waitForWarnings(_, _)
\* the waitFor loop: one warning per selector that did not become visible
waitForWarnings(waitFor, visible) ==
    IF waitFor = <<>> THEN <<>>
    ELSE (IF Head(waitFor) \in visible THEN <<>>
          ELSE <<"waitFor selector not visible within 30s: " \o Head(waitFor)>>)
         \o waitForWarnings(Tail(waitFor), visible)

RECURSIVE missingSelectors(_, _)
\* the requiredSelectors loop: one error per selector page.$ does not find
missingSelectors(requiredSelectors, dom) ==
    IF requiredSelectors = <<>> THEN <<>>
    ELSE (IF Head(requiredSelectors) \in dom THEN <<>>
          ELSE <<"Missing selector: " \o Head(requiredSelectors)>>)
         \o missingSelectors(Tail(requiredSelectors), dom)

\* one error entry for each console finding
consoleFindingsEach(consoleErrors) ==
    [n \in 1..Len(consoleErrors) |-> "Console errors: " \o consoleErrors[n]]

consoleFindings(consoleErrors) ==
    IF Len(consoleErrors) > 0
    THEN <<"Console errors: " \o Join(consoleErrors, "; ")>>
    ELSE <<>>

networkFindings(networkFailures) ==
    IF Len(networkFailures) > 0
    THEN <<"Network failures: " \o Join(networkFailures, "; ")>>
    ELSE <<>>

\* formatDuration: (ms / 1000).toFixed(1), for the durations of NavTimes
\* (tenths are rounded half up from the hundredths digit)
formatDuration(ms) ==
    LET tenths == (ms + 50) \div 100
    IN  ToString(tenths \div 10) \o "." \o ToString(tenths % 10)

\* a slow-page warning from the threshold on
slowWarningAtThreshold(navigationTime) ==
    IF navigationTime >= SlowThresholdMs
    THEN <<"Slow page: " \o formatDuration(navigationTime) \o "s">>
    ELSE <<>>

slowWarning(navigationTime) ==
    IF navigationTime > SlowThresholdMs
    THEN <<"Slow page: " \o formatDuration(navigationTime) \o "s">>
    ELSE <<>>

\* a result whose success also asks for no warnings
pageResultStrict(job, errors, warnings, screenshot, screenshots) ==
    [url |-> job.url, device |-> job.device,
     success |-> (Len(errors) = 0 /\ Len(warnings) = 0),
     errors |-> errors, warnings |-> warnings,
     screenshot |-> screenshot,
     screenshots |-> IF Len(screenshots) > 1 THEN Some(screenshots) ELSE Undefined]

\* the object checkPage returns
pageResult(job, errors, warnings, screenshot, screenshots) ==
    [url |-> job.url, device |-> job.device,
     success |-> (Len(errors) = 0),
     errors |-> errors, warnings |-> warnings,
     screenshot |-> screenshot,
     screenshots |-> IF Len(screenshots) > 1 THEN Some(screenshots) ELSE Undefined]

(***************************************************************************)
(* worker.ts: captureMultiPartScreenshots.                                 *)
(***************************************************************************)
singleName(urlSlug, deviceSlug) == urlSlug \o "." \o deviceSlug \o ".png"

partName(urlSlug, deviceSlug, part, numParts) ==
    urlSlug \o "." \o deviceSlug \o ".part" \o ToString(part) \o "of"
        \o ToString(numParts) \o ".png"

\* the number of parts rounded down: Math.floor(pageHeight / maxHeight)
numPartsFloor(pageHeight, maxHeight) == pageHeight \div maxHeight

numPartsOf(pageHeight, maxHeight) == Ceil(pageHeight, maxHeight)

\* parts as high as the limit, the rest in the last one
partHeightMax(pageHeight, maxHeight) == maxHeight

partHeightOf(pageHeight, maxHeight) ==
    Ceil(pageHeight, numPartsOf(pageHeight, maxHeight))

\* a crop rectangle that is not clipped at the end of the page
bandUnclipped(pageHeight, maxHeight, i) ==
    <<i * partHeightOf(pageHeight, maxHeight), partHeightOf(pageHeight, maxHeight)>>

\* the crop rectangle of part i (0-based): <<startY, actualHeight>>
band(pageHeight, maxHeight, i) ==
    LET startY == i * partHeightOf(pageHeight, maxHeight)
    IN  <<startY, Min(partHeightOf(pageHeight, maxHeight), pageHeight - startY)>>

\* the filenames pushed by the first `parts` iterations of the crop loop
partNames(urlSlug, deviceSlug, pageHeight, maxHeight, parts) ==
    [p \in 1..parts |->
        partName(urlSlug, deviceSlug, p, numPartsOf(pageHeight, maxHeight))]

\* the crop rectangles of the first `parts` iterations of the crop loop
partCrops(pageHeight, maxHeight, parts) ==
    [p \in 1..parts |-> band(pageHeight, maxHeight, p - 1)]

tempName(now) == "temp-full-" \o ToString(now) \o ".png"

(***************************************************************************)
(* Inputs: configurations, and what the browser and the sites can do.      *)
(***************************************************************************)
JsNull == [type |-> "null"]

JsUndefined == [type |-> "undefined"]

Num(n) == [type |-> "number", value |-> n]

\* config.maxScreenshotHeight, which the PageConfig interface does not declare
maxScreenshotHeightOf(config) ==
    IF "maxScreenshotHeight" \in DOMAIN config
    THEN config.maxScreenshotHeight ELSE JsUndefined

PageUrl(p) ==
    [host |-> <<"example", "com">>,
     path |-> IF p = 1 THEN <<>> ELSE <<"page" \o ToString(p)>>]

\* the _default of the scheduler configurations: plain single captures
PlainDefault ==
    [fullPage |-> FALSE, devices |-> <<"desktop">>, timeoutMs |-> 30000,
     requiredSelectors |-> <<>>, abortIfFail |-> FALSE, waitUntil |-> "load",
     waitFor |-> <<>>, scrollPage |-> FALSE, maxScreenshotHeight |-> JsNull]

\* the _default of the page-check configurations
RichDefault ==
    [fullPage |-> FALSE, devices |-> <<"iPhone 13">>, timeoutMs |-> 30000,
     requiredSelectors |-> <<>>, abortIfFail |-> FALSE,
     waitUntil |-> "networkidle", waitFor |-> <<>>, scrollPage |-> FALSE,
     maxScreenshotHeight |-> Num(4)]

\* the page overrides of the page-check runs: each switches one group of
\* checks on
RichOverrides ==
    { <<>>,
      [requiredSelectors |-> <<"#main", "footer">>, waitFor |-> <<".hero", ".cta">>,
       scrollPage |-> TRUE],
      [fullPage |-> TRUE, abortIfFail |-> TRUE],
      [fullPage |-> TRUE, maxScreenshotHeight |-> JsNull] }

\* scheduler configurations: NumPages pages of one device each; the pages
\* marked abortIfFail are none, page 3, pages 1 and 4, or the last page
CriticalSets == {{}, {3}, {1, 4}, {NumPages}}

SchedulerConfig(critical) ==
    [default |-> PlainDefault,
     pages |-> [p \in 1..NumPages |->
                   <<PageUrl(p),
                     IF p \in critical THEN [abortIfFail |-> TRUE] ELSE <<>> >>]]

PageCheckConfig(override) ==
    [default |-> RichDefault, pages |-> << <<PageUrl(2), override>> >>]

\* a _default that sets the declared fields of PageConfig only, as the
\* configuration example of the design document does: maxScreenshotHeight
\* is not set
UnsetDefault ==
    [fullPage |-> FALSE, devices |-> <<"desktop">>, timeoutMs |-> 10000,
     requiredSelectors |-> <<>>, abortIfFail |-> FALSE, waitUntil |-> "load",
     waitFor |-> <<>>, scrollPage |-> FALSE]

\* the page overrides of the capture runs: fullPage set or not, and
\* maxScreenshotHeight left out, null, or a number up to MaxM
CaptureOverrides ==
    { [fullPage |-> fp] : fp \in BOOLEAN }
    \cup { [fullPage |-> fp, maxScreenshotHeight |-> m] :
               fp \in BOOLEAN, m \in {JsNull} \cup {Num(n) : n \in 1..MaxM} }

CaptureConfig(override) ==
    [default |-> UnsetDefault, pages |-> << <<PageUrl(2), override>> >>]

\* the _default and the page overrides of the expansion runs
ExpandDefaults == {UnsetDefault, [UnsetDefault EXCEPT !.devices = <<>>]}

ExpandOverrides ==
    { <<>>,
      [devices |-> <<>>],
      [devices |-> <<"mobile", "iPad Pro">>, requiredSelectors |-> <<"form">>],
      [abortIfFail |-> TRUE, timeoutMs |-> 30000] }

\* what main has in hand when config.yaml is missing (nothing is parsed),
\* or parsed without its pages or without its _default
InvalidConfigs == {JsUndefined, [default |-> UnsetDefault], [pages |-> <<>>]}

\* every configuration of at most MaxPages pages, and the invalid ones
ExpandConfigs ==
    InvalidConfigs \cup
    { [default |-> d, pages |-> [p \in DOMAIN o |-> <<PageUrl(p), o[p]>>]] :
          d \in ExpandDefaults,
          o \in UNION {[1..n -> ExpandOverrides] : n \in 0..MaxPages} }

\* two pages taller or shorter than their maxScreenshotHeight, checked and
\* captured in one batch
FaultsConfig ==
    [default |-> [fullPage |-> TRUE, devices |-> <<"desktop">>, timeoutMs |-> 30000,
                  requiredSelectors |-> <<"#main">>, abortIfFail |-> FALSE,
                  waitUntil |-> "load", waitFor |-> <<>>, scrollPage |-> TRUE,
                  maxScreenshotHeight |-> Num(4)],
     pages |-> << <<PageUrl(1), <<>> >>, <<PageUrl(2), <<>> >> >>]

\* two plain pages of one batch, for the runs that watch the listeners
ObserveConfig ==
    [default |-> PlainDefault,
     pages |-> << <<PageUrl(1), <<>> >>, <<PageUrl(2), <<>> >> >>]

VARIABLES
    env,        \* "quiet", "calm", "observe", "faults" or "full": what the browser and
                \* the sites may do
    config,     \* the parsed config.yaml
    mainPc,     \* where main is: start, loop, await, summary, exited
    jobs,       \* the expanded job list
    i,          \* the batch loop index (0-based, as in main)
    aborted,    \* the abort flag of main
    results,    \* the results array of main
    check,      \* per job: the activation of checkPage
    browser,    \* "none", "open" or "closed"
    files,      \* the names of the files in the output directory
    exitCode,   \* Undefined until process.exit(code)
    overtaken   \* history: a failing abortIfFail job has settled while an
                \* earlier job of its batch was still running

vars == <<env, config, mainPc, jobs, i, aborted, results, check, browser,
          files, exitCode, overtaken>>

\* the locals of a checkPage call that has not started
\* (starts counts the calls of checkPage for the job; navigated and response
\* keep how page.goto settled; calls keeps the later page calls made; caught
\* is the value the catch block received; pageHeight, crops and touched keep
\* the measured height, the rectangles cropped and the paths of the output
\* directory the call wrote or deleted; visible and dom keep the waitFor
\* selectors that became visible and the required selectors page.$ found)
idleCheck ==
    [pc |-> "idle", starts |-> 0, ctx |-> "none", consoleErrors |-> <<>>,
     networkFailures |-> <<>>, navigated |-> "no", response |-> Undefined,
     navigationTime |-> 0, errors |-> <<>>, warnings |-> <<>>, calls |-> {},
     caught |-> Undefined, pageHeight |-> Undefined, crops |-> <<>>,
     touched |-> {}, visible |-> {}, dom |-> {}, heard |-> <<>>, late |-> <<>>,
     consulted |-> [console |-> 0, network |-> 0], result |-> Undefined]

(***************************************************************************)
(* What the environment may do, by env.                                    *)
(***************************************************************************)
TimeoutError == Err("page.goto: Timeout 30000ms exceeded.")

NetError == Err("page.goto: net::ERR_CONNECTION_REFUSED")

ClosedError == Err("browser.newContext: Target closed")

DiskError == Err("ENOSPC: no space left on device")

OpenOutcomes ==
    IF env \in {"quiet", "calm", "observe"} THEN {"ok"}
    ELSE {"ok", "newContextThrows", "newPageThrows"}

\* page.goto: a response (null, or with a status) after a time, or a throw
NavOutcomes ==
    IF env = "calm"
    THEN { [kind |-> "response", response |-> Some(200), time |-> 1200, error |-> NonError] }
    ELSE IF env = "observe"
    THEN { [kind |-> "response", response |-> Some(200), time |-> 1200, error |-> NonError],
           [kind |-> "response", response |-> Some(404), time |-> 1200, error |-> NonError] }
    ELSE IF env \in {"quiet", "faults"}
    THEN { [kind |-> "response", response |-> Some(200), time |-> 1200, error |-> NonError],
           [kind |-> "response", response |-> Some(404), time |-> 1200, error |-> NonError],
           [kind |-> "throw", response |-> Undefined, time |-> 0, error |-> TimeoutError] }
    ELSE { [kind |-> "response", response |-> r, time |-> t, error |-> NonError] :
               r \in {Some(200), Some(404), Some(500), Undefined},
               t \in {1200, SlowThresholdMs, 6240} }
         \cup { [kind |-> "throw", response |-> Undefined, time |-> 0, error |-> e] :
                   e \in {TimeoutError, NetError, NonError} }

Event(type, level, text, status, url) ==
    [type |-> type, level |-> level, text |-> text, status |-> status, url |-> url]

\* the events a page can emit while it is open: harmless ones everywhere,
\* ignored noise and real errors on the sites of the page-check runs
PageEvents ==
    { Event("console", "warning", "deprecated", 0, ""),
      Event("response", "", "", 200, "https://example.com/a.css") }
    \cup
    (IF env # "full" THEN {}
     ELSE { Event("console", "error",
                  "Failed to load resource: the server responded with a status of 403 ()",
                  0, ""),
            Event("pageerror", "", "Refused: CSP", 0, ""),
            Event("response", "", "", 404, "https://www.google-analytics.com/c"),
            Event("requestfailed", "", "", 0, "https://connect.facebook.net/sdk.js"),
            Event("console", "error", "TypeError: x", 0, ""),
            Event("pageerror", "", "ReferenceError: y", 0, ""),
            Event("response", "", "", 500, "https://example.com/api"),
            Event("requestfailed", "", "", 0, "https://example.com/i.png") })

\* the address of a resource of the page at url
resourceOf(url, name) ==
    "https://" \o Join(url.host, ".") \o "/" \o Join(url.path \o <<name>>, "/")

\* the events of the page of a job: on the runs that watch the listeners,
\* ignored noise and errors of the page's own resources
PageEventsOf(job) ==
    IF env # "observe" THEN PageEvents
    ELSE { Event("console", "error",
                 "Failed to load resource: the server responded with a status of 403 ()",
                 0, ""),
           Event("pageerror", "", "ReferenceError: y", 0, ""),
           Event("response", "", "", 404, "https://www.google-analytics.com/c"),
           Event("response", "", "", 404, resourceOf(job.url, "api")) }

\* what the page can still emit after the console and network findings were
\* read, while page.$, the screenshot and context.close() are awaited
LateEvents(job) ==
    {<<>>} \cup
    (CASE env = "full" -> { <<Event("pageerror", "", "ReferenceError: y", 0, "")>> }
       [] env = "observe" ->
            { <<Event("requestfailed", "", "", 0, resourceOf(job.url, "i.png"))>> }
       [] OTHER -> {})

PostLoadFaults ==
    IF env \in {"quiet", "calm", "observe"} THEN {"none"}
    ELSE {"none", "scrollThrows", "settleThrows", "queryThrows"}

CaptureFaults ==
    IF env \in {"quiet", "calm", "observe"} THEN {"none"}
    ELSE {"none", "evaluateThrows", "screenshotThrows", "readThrows",
          "cropThrows", "unlinkThrows"}

\* the measured document heights
PageHeights ==
    CASE env \in {"quiet", "observe"} -> {3}
      [] env = "full" -> {3, 4, 9}
      [] env = "faults" -> {3, 9}
      [] OTHER -> 1..MaxHeight

\* Date.now() when the temporary full raster is named: two jobs of a batch
\* can read the same millisecond
ClockValues == IF env = "faults" THEN {1730000, 1730001} ELSE {1730000}

(***************************************************************************)
(* checkPage, one activation per job.                                      *)
(***************************************************************************)
Range(seq) == {seq[n] : n \in 1..Len(seq)}

\* a slice one job too long: jobs.slice(i, i + WORKER_CONCURRENCY + 1)
batchWide(from) == (from + 1)..Min(from + WORKER_CONCURRENCY + 1, Len(jobs))

\* jobs.slice(i, i + WORKER_CONCURRENCY), as job numbers (1-based)
Batch(from) == (from + 1)..Min(from + WORKER_CONCURRENCY, Len(jobs))

\* checkPage returns the result object
returned(c, job, ctx, errors, warnings, screenshot, screenshots, calls) ==
    [c EXCEPT !.pc = "returned", !.ctx = ctx,
              !.errors = errors, !.warnings = warnings, !.calls = calls,
              !.result = Some(pageResult(job, errors, warnings, screenshot, screenshots))]

\* a catch block that records nothing
thrownSwallowed(c, job, ctx, error, errors, warnings, calls) ==
    [returned(c, job, ctx, errors, warnings, Undefined, <<>>, calls)
        EXCEPT !.caught = Some(error)]

\* the catch block: the context is left as it is, the error is recorded
thrown(c, job, ctx, error, errors, warnings, calls) ==
    [returned(c, job, ctx, Append(errors, catchError(error)), warnings,
              Undefined, <<>>, calls) EXCEPT !.caught = Some(error)]

\* the order in which the promises of a batch settle: job k settles with
\* activation c
noteSettled(k, c) ==
    \/ overtaken
    \/ /\ c.pc = "returned"
       /\ ~c.result[1].success
       /\ jobs[k].config.abortIfFail
       /\ \E j \in Batch(i) : j < k /\ check[j].pc # "returned"

Step(k, c) ==
    /\ check' = [check EXCEPT ![k] = c]
    /\ overtaken' = noteSettled(k, c)
    /\ UNCHANGED <<env, config, mainPc, jobs, i, aborted, results, browser, exitCode>>

\* browser.newContext, context.newPage, the four page.on calls, page.goto
\* is requested
OpenContext(k) ==
    /\ check[k].pc = "opening"
    /\ \E o \in OpenOutcomes :
          Step(k, CASE o = "ok" ->
                         [check[k] EXCEPT !.pc = "navigating", !.ctx = "open"]
                    [] o = "newContextThrows" ->
                         thrown(check[k], jobs[k], "none", ClosedError, <<>>, <<>>, {})
                    [] OTHER ->
                         thrown(check[k], jobs[k], "open", ClosedError, <<>>, <<>>, {}))
    /\ UNCHANGED files

\* only a missing response or a server error ends the check
isBadStatusServerOnly(response) == response = Undefined \/ response[1] >= 500

\* only a missing response ends the check: !response
isBadStatusMissingOnly(response) == response = Undefined

\* !response || response.status() !== 200
isBadStatus(response) == response = Undefined \/ response[1] # 200

\* page.goto settles; a response that is not 200 ends the check
Navigate(k) ==
    /\ check[k].pc = "navigating"
    /\ \E o \in NavOutcomes :
          LET c == [check[k] EXCEPT !.navigated = o.kind, !.response = o.response,
                                    !.navigationTime = o.time]
          IN  Step(k, IF o.kind = "throw"
                      THEN thrown(c, jobs[k], c.ctx, o.error, <<>>, <<>>, {})
                      ELSE IF isBadStatus(o.response)
                      THEN returned(c, jobs[k], "closed", <<statusError(o.response)>>,
                                    <<>>, Undefined, <<>>, {})
                      ELSE [c EXCEPT !.pc = "loaded"])
    /\ UNCHANGED files

\* listeners that are attached when the navigation is over
emitLoadedOnly(c, ev) ==
    IF c.pc = "navigating" THEN c
    ELSE [c EXCEPT
            !.consoleErrors =
                IF ev.type = "console" THEN onConsole(c.consoleErrors, ev)
                ELSE IF ev.type = "pageerror" THEN onPageError(c.consoleErrors, ev)
                ELSE c.consoleErrors,
            !.networkFailures =
                IF ev.type = "response" THEN onResponse(c.networkFailures, ev)
                ELSE IF ev.type = "requestfailed" THEN onRequestFailed(c.networkFailures, ev)
                ELSE c.networkFailures]

\* the page emits ev: the listener of its type runs on the arrays of the job
emit(c, ev) ==
    [c EXCEPT
       !.consoleErrors =
           IF ev.type = "console" THEN onConsole(c.consoleErrors, ev)
           ELSE IF ev.type = "pageerror" THEN onPageError(c.consoleErrors, ev)
           ELSE c.consoleErrors,
       !.networkFailures =
           IF ev.type = "response" THEN onResponse(c.networkFailures, ev)
           ELSE IF ev.type = "requestfailed" THEN onRequestFailed(c.networkFailures, ev)
           ELSE c.networkFailures]

\* the logs and, on the runs that watch the listeners, the events stay
\* within MaxLog
withinLog(c) ==
    /\ Len(c.consoleErrors) + Len(c.networkFailures) <= MaxLog
    /\ Len(c.heard) + Len(c.late) <= MaxLog

\* one of the four listeners runs, while page.goto, the waitFor loop, the
\* scroll or the settle delay is awaited
PageEvent(k) ==
    /\ check[k].pc \in {"navigating", "loaded"}
    /\ \E ev \in PageEventsOf(jobs[k]) :
          LET c == emit(check[k], ev)
              d == IF env = "observe" THEN [c EXCEPT !.heard = Append(@, ev)] ELSE c
          IN  /\ withinLog(d)
              /\ Step(k, d)
    /\ UNCHANGED files

\* a page as high as the limit is split too: pageHeight < maxHeight
fitsOnePartStrict(pageHeight, maxHeight) ==
    maxHeight.type = "number" /\ pageHeight < maxHeight.value

\* pageHeight <= maxHeight (false when maxHeight is undefined)
fitsOnePart(pageHeight, maxHeight) ==
    maxHeight.type = "number" /\ pageHeight <= maxHeight.value

\* captureMultiPartScreenshots for a measured pageHeight: whether it threw,
\* the filenames it returns, the files it leaves in the output directory,
\* the paths it wrote or deleted, the rectangles it cropped and whether the
\* height was measured. fault names the call that throws; failPart the part
\* whose crop or write throws.
captureMultiPartScreenshots(urlSlug, deviceSlug, maxHeight, pageHeight, now, fault, failPart) ==
    LET failed(left, cropped, measured) ==
            [threw |-> TRUE, shots |-> <<>>, written |-> left, touched |-> left,
             crops |-> cropped, measured |-> measured]
        \* maxHeight undefined: every comparison with NaN is false, no part
        parts == IF maxHeight.type = "number"
                 THEN numPartsOf(pageHeight, maxHeight.value) ELSE 0
        names(n) == partNames(urlSlug, deviceSlug, pageHeight, maxHeight.value, n)
        crops(n) == partCrops(pageHeight, maxHeight.value, n)
    IN  IF fault = "evaluateThrows" THEN failed({}, <<>>, FALSE)
        ELSE IF fitsOnePart(pageHeight, maxHeight)
        THEN IF fault = "screenshotThrows" THEN failed({}, <<>>, TRUE)
             ELSE [threw |-> FALSE, shots |-> <<singleName(urlSlug, deviceSlug)>>,
                   written |-> {singleName(urlSlug, deviceSlug)},
                   touched |-> {singleName(urlSlug, deviceSlug)},
                   crops |-> <<>>, measured |-> TRUE]
        ELSE CASE fault = "screenshotThrows" -> failed({}, <<>>, TRUE)
               [] fault = "readThrows" -> failed({tempName(now)}, <<>>, TRUE)
               [] fault = "cropThrows" ->
                    failed({tempName(now)} \cup Range(names(failPart - 1)),
                           crops(failPart - 1), TRUE)
               [] fault = "unlinkThrows" ->
                    failed({tempName(now)} \cup Range(names(parts)), crops(parts), TRUE)
               [] OTHER ->
                    [threw |-> FALSE, shots |-> names(parts),
                     written |-> Range(names(parts)),
                     touched |-> {tempName(now)} \cup Range(names(parts)),
                     crops |-> crops(parts), measured |-> TRUE]

\* the screenshot step of checkPage: split capture or one page.screenshot
takeScreenshots(job, pageHeight, now, fault, failPart) ==
    LET urlSlug == urlToSlug(job.url)
        deviceSlug == deviceToSlug(job.device)
    IN  IF job.config.fullPage /\ maxScreenshotHeightOf(job.config) # JsNull
        THEN captureMultiPartScreenshots(urlSlug, deviceSlug,
                 maxScreenshotHeightOf(job.config), pageHeight, now, fault, failPart)
        ELSE IF fault = "screenshotThrows"
        THEN [threw |-> TRUE, shots |-> <<>>, written |-> {}, touched |-> {},
              crops |-> <<>>, measured |-> FALSE]
        ELSE [threw |-> FALSE, shots |-> <<singleName(urlSlug, deviceSlug)>>,
              written |-> {singleName(urlSlug, deviceSlug)},
              touched |-> {singleName(urlSlug, deviceSlug)},
              crops |-> <<>>, measured |-> FALSE]

\* the calls of the screenshot step that exist on the path taken
faultsOnPath(job, pageHeight) ==
    LET maxHeight == maxScreenshotHeightOf(job.config)
    IN  IF ~(job.config.fullPage /\ maxHeight # JsNull)
        THEN {"none", "screenshotThrows"}
        ELSE IF fitsOnePart(pageHeight, maxHeight)
        THEN {"none", "evaluateThrows", "screenshotThrows"}
        ELSE IF maxHeight.type = "number"
        THEN {"none", "evaluateThrows", "screenshotThrows", "readThrows",
              "cropThrows", "unlinkThrows"}
        ELSE {"none", "evaluateThrows", "screenshotThrows", "readThrows", "unlinkThrows"}

\* the else branch after a 200: waitFor, scroll, settle, the console,
\* network and selector checks, the load time warning, the screenshot step,
\* context.close() and the return. fault names the one call that throws.
PostLoadAndCapture(k) ==
    /\ check[k].pc = "loaded"
    /\ LET c == check[k]
           job == jobs[k]
           cfg == job.config
           maxHeight == maxScreenshotHeightOf(cfg)
       IN  \E visible \in SUBSET Range(cfg.waitFor) :
           \E dom \in SUBSET Range(cfg.requiredSelectors) :
           \E pageHeight \in PageHeights :
           \E now \in ClockValues :
           \E fault \in PostLoadFaults \cup (CaptureFaults \cap faultsOnPath(job, pageHeight)) :
           \E failPart \in (IF fault = "cropThrows"
                            THEN 1..numPartsOf(pageHeight, maxHeight.value) ELSE {1}) :
           \E late \in LateEvents(job) :
              LET warnings1 == waitForWarnings(cfg.waitFor, visible)
                  calls1 == (IF cfg.waitFor # <<>> THEN {"waitFor"} ELSE {})
                            \cup (IF cfg.scrollPage THEN {"scroll"} ELSE {})
                  errors1 == consoleFindings(c.consoleErrors)
                             \o networkFindings(c.networkFailures)
                  errors2 == errors1 \o missingSelectors(cfg.requiredSelectors, dom)
                  warnings2 == warnings1 \o slowWarning(c.navigationTime)
                  calls2 == calls1 \cup {"settle"}
                            \cup (IF cfg.requiredSelectors # <<>> THEN {"query"} ELSE {})
                  got == takeScreenshots(job, pageHeight, now, fault, failPart)
                  \* what the screenshot step leaves in the locals
                  captured(d) ==
                      [d EXCEPT !.pageHeight = IF got.measured THEN Some(pageHeight)
                                               ELSE Undefined,
                                !.crops = got.crops, !.touched = got.touched]
                  \* what the page showed to the waits and the queries
                  found(d) == [d EXCEPT !.visible = visible, !.dom = dom]
                  \* the findings were read from the logs as they were then;
                  \* the listeners go on appending what the page emits later
                  later(d) ==
                      LET e == [d EXCEPT !.consulted =
                                   [console |-> Len(c.consoleErrors),
                                    network |-> Len(c.networkFailures)]]
                      IN  IF late = <<>> THEN e
                          ELSE [emit(e, late[1]) EXCEPT
                                  !.late = IF env = "observe" THEN late ELSE @]
              IN  /\ fault = "scrollThrows" => cfg.scrollPage
                  /\ fault = "queryThrows" => cfg.requiredSelectors # <<>>
                  /\ fault \in PostLoadFaults \ {"none"} => dom = {}
                  /\ fault \in {"scrollThrows", "settleThrows"} => late = <<>>
                  /\ withinLog(later(c))
                  /\ files' = IF fault \in PostLoadFaults \ {"none"} THEN files
                              ELSE files \cup got.written
                  /\ Step(k, later(found(
                       CASE fault = "scrollThrows" ->
                              thrown(c, job, c.ctx, TimeoutError, <<>>, warnings1, calls1)
                         [] fault = "settleThrows" ->
                              thrown(c, job, c.ctx, ClosedError, <<>>, warnings1,
                                     calls1 \cup {"settle"})
                         [] fault = "queryThrows" ->
                              thrown(c, job, c.ctx, ClosedError, errors1, warnings1,
                                     calls1 \cup {"settle", "query"})
                         [] got.threw ->
                              captured(thrown(c, job, c.ctx, DiskError, errors2, warnings2,
                                              calls2 \cup {"capture"}))
                         [] OTHER ->
                              captured(returned(c, job, "closed", errors2, warnings2,
                                                IF Len(got.shots) > 0 THEN Some(got.shots[1])
                                                ELSE Undefined,
                                                got.shots, calls2 \cup {"capture"})))))

(***************************************************************************)
(* main of run.ts.                                                         *)
(***************************************************************************)
\* Promise.race in place of Promise.all: some promise has settled
batchAnySettled(from) == \E k \in Batch(from) : check[k].pc = "returned"

\* only the first promise of the batch is awaited
batchFirstSettled(from) == check[from + 1].pc = "returned"

\* await Promise.all(batchPromises) can resume: every promise has settled
batchSettled(from) == \A k \in Batch(from) : check[k].pc = "returned"

\* the value of the promise of one checkPage call (a promise that has not
\* settled has none: Promise.all never hands one out)
valueOf(c) ==
    IF c.pc = "returned" THEN c.result[1]
    ELSE pageResult([url |-> PageUrl(0), device |-> ""], <<>>, <<>>, Undefined, <<>>)

\* results taken last to first: the batch results in reverse
promiseAllReversed(from) ==
    [j \in 1..Cardinality(Batch(from)) |->
        valueOf(check[from + Cardinality(Batch(from)) + 1 - j])]

\* Promise.all(batchPromises): the results by position in the batch
promiseAll(from) == [j \in 1..Cardinality(Batch(from)) |-> valueOf(check[from + j])]

\* batches that overlap by one job: i += WORKER_CONCURRENCY - 1
nextIndexOverlap(from) == from + WORKER_CONCURRENCY - 1

\* i += WORKER_CONCURRENCY
nextIndex(from) == from + WORKER_CONCURRENCY

RECURSIVE scanBatchAnyFailure(_, _, _, _)
\* a scan that aborts on every failure, whatever abortIfFail says
scanBatchAnyFailure(res, batchResults, from, j) ==
    IF j > Len(batchResults) THEN <<res, FALSE>>
    ELSE IF ~batchResults[j].success
    THEN <<Append(res, batchResults[j]), TRUE>>
    ELSE scanBatchAnyFailure(Append(res, batchResults[j]), batchResults, from, j + 1)

RECURSIVE scanBatch(_, _, _, _)
\* the abort-if-fail loop from batch position j on: <<results, aborted>>
scanBatch(res, batchResults, from, j) ==
    IF j > Len(batchResults) THEN <<res, FALSE>>
    ELSE IF ~batchResults[j].success /\ jobs[from + j].config.abortIfFail
    THEN <<Append(res, batchResults[j]), TRUE>>
    ELSE scanBatch(Append(res, batchResults[j]), batchResults, from, j + 1)

\* config.yaml exists and has both _default and pages
isValidConfig(cfg) == "default" \in DOMAIN cfg /\ "pages" \in DOMAIN cfg

\* config load with its two exits, expandPageJobs, the "No pages
\* configured" exit, the launch of the browser
Start ==
    /\ mainPc = "start"
    /\ jobs' = IF isValidConfig(config) THEN expandPageJobs(config) ELSE <<>>
    /\ IF Len(jobs') = 0
       THEN /\ mainPc' = "exited"
            /\ exitCode' = Some(1)
            /\ UNCHANGED <<browser, check>>
       ELSE /\ mainPc' = "loop"
            /\ browser' = "open"
            /\ check' = [k \in 1..Len(jobs') |-> idleCheck]
            /\ UNCHANGED exitCode
    /\ UNCHANGED <<env, config, i, aborted, results, files, overtaken>>

\* the loop test passes: batch.map calls checkPage for every job of the batch
Launch ==
    /\ mainPc = "loop"
    /\ i < Len(jobs)
    /\ ~aborted
    /\ check' = [k \in DOMAIN check |->
                    IF k \in Batch(i)
                    THEN [idleCheck EXCEPT !.pc = "opening", !.starts = check[k].starts + 1]
                    ELSE check[k]]
    /\ mainPc' = "await"
    /\ UNCHANGED <<env, config, jobs, i, aborted, results, browser, files, exitCode, overtaken>>

\* Promise.all resolves; the scan of the batch; i += WORKER_CONCURRENCY
BatchScan ==
    /\ mainPc = "await"
    /\ batchSettled(i)
    /\ LET scanned == scanBatch(results, promiseAll(i), i, 1)
       IN  /\ results' = scanned[1]
           /\ aborted' = (aborted \/ scanned[2])
    /\ i' = nextIndex(i)
    /\ mainPc' = "loop"
    /\ UNCHANGED <<env, config, jobs, check, browser, files, exitCode, overtaken>>

\* the loop ends (no job left, or aborted): finally browser.close()
CloseBrowser ==
    /\ mainPc = "loop"
    /\ ~(i < Len(jobs) /\ ~aborted)
    /\ browser' = "closed"
    /\ check' = [k \in DOMAIN check |->
                    IF check[k].ctx = "open" THEN [check[k] EXCEPT !.ctx = "closed"]
                    ELSE check[k]]
    /\ mainPc' = "summary"
    /\ UNCHANGED <<env, config, jobs, i, aborted, results, files, exitCode, overtaken>>

failedCount(res) == Cardinality({n \in 1..Len(res) : ~res[n].success})

\* an exit status that is always 0
exitStatusZero(failed) == 0

\* failed > 0 ? 1 : 0
exitStatus(failed) == IF failed > 0 THEN 1 ELSE 0

\* the summary and process.exit(failed > 0 ? 1 : 0)
Exit ==
    /\ mainPc = "summary"
    /\ exitCode' = Some(exitStatus(failedCount(results)))
    /\ mainPc' = "exited"
    /\ UNCHANGED <<env, config, jobs, i, aborted, results, check, browser, files, overtaken>>

(***************************************************************************)
(* Specifications.                                                         *)
(***************************************************************************)
InitRun ==
    /\ mainPc = "start"
    /\ jobs = <<>>
    /\ i = 0
    /\ aborted = FALSE
    /\ results = <<>>
    /\ check = <<>>
    /\ browser = "none"
    /\ files = {}
    /\ exitCode = Undefined
    /\ overtaken = FALSE

\* the scheduler: NumPages quiet pages
Init ==
    /\ env = "quiet"
    /\ \E critical \in CriticalSets : config = SchedulerConfig(critical)
    /\ InitRun

\* the page check: one page, any event and any fault
InitPage ==
    /\ env = "full"
    /\ \E override \in RichOverrides : config = PageCheckConfig(override)
    /\ InitRun

\* the capture: one page of any height up to MaxHeight, nothing fails
InitCapture ==
    /\ env = "calm"
    /\ \E override \in CaptureOverrides : config = CaptureConfig(override)
    /\ InitRun

\* the expansion: any configuration of ExpandConfigs, nothing fails
InitExpand ==
    /\ env = "calm"
    /\ config \in ExpandConfigs
    /\ InitRun

\* two jobs of one batch whose pages emit events, nothing fails
InitObserve ==
    /\ env = "observe"
    /\ config = ObserveConfig
    /\ InitRun

\* two jobs of one batch, any fault
InitFaults ==
    /\ env = "faults"
    /\ config = FaultsConfig
    /\ InitRun

Next ==
    \/ Start
    \/ Launch
    \/ \E k \in DOMAIN check : OpenContext(k)
    \/ \E k \in DOMAIN check : Navigate(k)
    \/ \E k \in DOMAIN check : PageEvent(k)
    \/ \E k \in DOMAIN check : PostLoadAndCapture(k)
    \/ BatchScan
    \/ CloseBrowser
    \/ Exit

Spec == Init /\ [][Next]_vars

SpecPage == InitPage /\ [][Next]_vars

SpecCapture == InitCapture /\ [][Next]_vars

SpecExpand == InitExpand /\ [][Next]_vars

SpecFaults == InitFaults /\ [][Next]_vars

SpecObserve == InitObserve /\ [][Next]_vars

\* every pending promise settles and main runs on: the event loop takes a
\* step whenever one is possible
FairSpec == Init /\ [][Next]_vars /\ WF_vars(Next)

(***************************************************************************)
(* The claims.                                                             *)
(***************************************************************************)
\* the concurrency width of the specification
W == 5

launched(k) == k \in DOMAIN check /\ check[k].pc # "idle"

inProgress(k) == k \in DOMAIN check /\ check[k].pc \in {"opening", "navigating", "loaded"}

settled(k) == k \in DOMAIN check /\ check[k].pc = "returned"

\* the number of the batch of job k in the original job order
batchNo(k) == (k - 1) \div W

failed(k) == settled(k) /\ ~check[k].result[1].success

criticalFailure(k) == failed(k) /\ jobs[k].config.abortIfFail

inResults(k) == \E n \in 1..Len(results) : results[n].url = jobs[k].url

\* a result in the result list that failed and whose job is abortIfFail
scannedCritical ==
    \E n \in 1..Len(results) : \E k \in 1..Len(jobs) :
        /\ results[n].url = jobs[k].url
        /\ ~results[n].success
        /\ jobs[k].config.abortIfFail

\* C1: batch atomicity of results. When the run is over and a job failed
\* with abortIfFail, the result list holds a result for every job of that
\* job's batch and of the earlier batches, and none for a job of a later one.
C1_BatchAtomicity ==
    mainPc \in {"summary", "exited"} =>
        \A k \in DOMAIN check :
            criticalFailure(k) =>
                \A j \in DOMAIN check :
                    inResults(j) <=> (batchNo(j) <= batchNo(k))

\* C2: result ordering. The n-th collected result is the result the n-th
\* job of the job list returned, in whatever order the jobs settled.
C2_ResultOrder ==
    \A n \in 1..Len(results) :
        /\ settled(n)
        /\ results[n] = check[n].result[1]
        /\ results[n].url = jobs[n].url
        /\ results[n].device = jobs[n].device

\* a critical job failed before an earlier job of its batch had settled, and
\* the results of both were collected
C2_Witness ==
    /\ overtaken
    /\ mainPc = "summary"
    /\ Len(results) >= 2

\* C3: completeness without abort. The run ends; when it has ended and no
\* abortIfFail job failed, there is exactly one result per job, in job
\* order, and checkPage was called exactly once for every job; it is never
\* called twice for a job.
C3_Completeness ==
    /\ <>(mainPc = "exited")
    /\ [](\A k \in DOMAIN check : check[k].starts <= 1)
    /\ []((mainPc = "exited" /\ \A k \in DOMAIN check : ~criticalFailure(k)) =>
            /\ Len(results) = Len(jobs)
            /\ \A k \in 1..Len(jobs) :
                  check[k].starts = 1 /\ results[k].url = jobs[k].url)

\* a finished run of NumPages jobs in which a job failed, a critical job
\* passed, and every job has its result
C3_Witness ==
    /\ mainPc = "exited"
    /\ Len(results) = NumPages
    /\ \E k \in DOMAIN check : failed(k) /\ ~jobs[k].config.abortIfFail
    /\ \E k \in DOMAIN check : settled(k) /\ ~failed(k) /\ jobs[k].config.abortIfFail

\* a step that launches a job
launches == \E k \in DOMAIN check : check[k].pc = "idle" /\ check'[k].pc # "idle"

\* C4: abort escalation. The abort flag is set exactly when a scanned result
\* failed with abortIfFail; at the head of the loop with jobs left the next
\* batch can be launched exactly when no such result was scanned (a failure
\* without abortIfFail does not stop it); a job is launched only when no
\* such result was scanned, and once the flag is set it stays set and no
\* job is launched.
C4_AbortEscalation ==
    /\ [](aborted <=> scannedCritical)
    /\ []((mainPc = "loop" /\ i < Len(jobs)) => ((ENABLED Launch) <=> ~scannedCritical))
    /\ [][(launches => ~scannedCritical) /\ (aborted => (aborted' /\ ~launches))]_vars

\* a run that ended aborted: a failure without abortIfFail was scanned first
\* and did not stop the scan, and the last job was never launched
C4_Witness ==
    /\ mainPc = "exited"
    /\ aborted
    /\ check[NumPages].pc = "idle"
    /\ \E n \in 1..Len(results) : ~results[n].success /\ ~jobs[n].config.abortIfFail

\* C5: batch barrier. A job is started only when every job of every earlier
\* batch has returned its result.
C5_BatchBarrier ==
    \A k \in DOMAIN check :
        launched(k) => \A j \in DOMAIN check : batchNo(j) < batchNo(k) => settled(j)

\* the second batch is running after a first batch with a failed job
C5_Witness ==
    /\ inProgress(W + 1)
    /\ check[W + 1].pc = "loaded"
    /\ \E j \in 1..W : failed(j)

C7_NoCancellation ==
    /\ <>[](\A k \in DOMAIN check : ~inProgress(k))
    /\ []((aborted \/ browser = "closed") => \A k \in DOMAIN check : ~inProgress(k))
    /\ [][\A k \in DOMAIN check : inProgress(k) => (inProgress(k)' \/ settled(k)')]_vars

\* a critical job failed while an earlier job of its batch was running; the
\* whole batch still ran to its end, the job after the critical one passed
\* and left its screenshot
C7_Witness ==
    /\ overtaken
    /\ aborted
    /\ \A k \in 1..W : settled(k)
    /\ \E k \in 2..(W - 1) :
          /\ criticalFailure(k)
          /\ ~failed(k + 1)
          /\ check[k + 1].result[1].screenshot # Undefined

\* C8: guaranteed context release. When a page check has returned its
\* result, its browsing context is not open.
C8_ContextReleased ==
    \A k \in DOMAIN check : settled(k) => check[k].ctx # "open"

\* the error the specification gives for a response that is not a 200
C9_StatusText(response) ==
    IF response = Undefined THEN "Status unknown"
    ELSE IF response[1] = 404 THEN "Status 404"
    ELSE IF response[1] = 500 THEN "Status 500"
    ELSE "Status ?"

\* C9: status gating. Once page.goto has given a response that is missing or
\* not 200, the check has returned with exactly the one status error, no
\* warning, no screenshot, no waitFor, scroll, settle, selector or capture
\* call made, and no file written for it.
C9_StatusGating ==
    \A k \in DOMAIN check :
        (/\ check[k].navigated = "response"
         /\ (check[k].response = Undefined \/ check[k].response[1] # 200)) =>
            /\ settled(k)
            /\ check[k].result[1].errors = <<C9_StatusText(check[k].response)>>
            /\ ~check[k].result[1].success
            /\ check[k].result[1].warnings = <<>>
            /\ check[k].result[1].screenshot = Undefined
            /\ check[k].result[1].screenshots = Undefined
            /\ check[k].calls = {}
            /\ check[k].ctx = "closed"
            /\ (Len(jobs) = 1 => files = {})

\* a 404 after both observers had recorded findings
C9_Witness ==
    \E k \in DOMAIN check :
        /\ settled(k)
        /\ check[k].response = Some(404)
        /\ Len(check[k].consoleErrors) > 0
        /\ Len(check[k].networkFailures) > 0
        /\ check[k].result[1].errors = <<"Status 404">>

\* C10: success equivalence. Every returned result, and every collected
\* one, has success exactly when its errors are empty.
C10_SuccessEquivalence ==
    /\ \A k \in DOMAIN check :
          settled(k) => (check[k].result[1].success <=> check[k].result[1].errors = <<>>)
    /\ \A n \in 1..Len(results) : results[n].success <=> results[n].errors = <<>>

\* a result after a 200 with a content error, then an exception in the
\* capture: two errors, warnings, no success
C10_Witness ==
    \E n \in 1..Len(results) :
        /\ Len(results[n].errors) = 2
        /\ Len(results[n].warnings) > 0
        /\ "capture" \in check[n].calls
        /\ ~results[n].success

\* C11: errors as data. A page check that raised an exception (opening the
\* context, navigating, in the checks after the load or in the capture) has
\* returned a result of its own job with success false and at least one
\* error; a returned result never changes afterwards and a step that
\* settles one job leaves every other job as it was; when the loop is over,
\* the wait-for-all has delivered the result of every job of the batch.
C11_ErrorsAsData ==
    /\ [](\A k \in DOMAIN check :
            check[k].caught # Undefined =>
                /\ settled(k)
                /\ check[k].result[1].url = jobs[k].url
                /\ check[k].result[1].device = jobs[k].device
                /\ ~check[k].result[1].success
                /\ Len(check[k].result[1].errors) >= 1)
    /\ []((mainPc = "summary" /\ ~aborted) =>
            /\ Len(results) = Len(jobs)
            /\ \A k \in DOMAIN check : results[k] = check[k].result[1])
    /\ [][\A k \in DOMAIN check :
            /\ settled(k) => check'[k].result = check[k].result
            /\ (~settled(k) /\ settled(k)') =>
                  \A j \in DOMAIN check : j # k => check'[j] = check[j]]_vars

\* the capture of the first job threw after its content checks; its sibling
\* passed with its screenshots and both results were collected
C11_Witness ==
    /\ mainPc = "summary"
    /\ Len(results) = 2
    /\ check[1].caught = Some(DiskError)
    /\ "capture" \in check[1].calls
    /\ ~results[1].success
    /\ results[2].success
    /\ results[2].screenshots # Undefined

\* the least integer that is at least a / b
C12_Ceiling(a, b) == CHOOSE q \in 0..a : q * b >= a /\ (q - 1) * b < a

RECURSIVE C12_Sum(_)
\* the sum of the heights of a sequence of bands
C12_Sum(bands) == IF bands = <<>> THEN 0 ELSE Head(bands)[2] + C12_Sum(Tail(bands))

\* a page check that measured height H under the limit M, H > M, and whose
\* capture ran to its end
splitCapture(k, H, M) ==
    /\ settled(k)
    /\ check[k].caught = Undefined
    /\ check[k].pageHeight = Some(H)
    /\ jobs[k].config.fullPage
    /\ maxScreenshotHeightOf(jobs[k].config) = Num(M)
    /\ H > M

\* C12: partition coverage. A capture of a page of height H > M crops
\* exactly ceil(H / M) bands; band i (from 0) starts at i * partHeight and
\* ends at min((i + 1) * partHeight, H) with partHeight = ceil(H / numParts);
\* the first starts at 0, each starts where the one before ends, the last
\* ends at H and the heights add up to H; the filenames carry the part
\* numbers 1..numParts in order, each with the part count numParts.
C12_PartitionCoverage ==
    \A k \in DOMAIN check : \A H \in 1..(MaxHeight + 1) : \A M \in 1..(MaxM + 1) :
        splitCapture(k, H, M) =>
            LET numParts == C12_Ceiling(H, M)
                partHeight == C12_Ceiling(H, numParts)
                crops == check[k].crops
                names == check[k].result[1].screenshots
            IN  /\ Len(crops) = numParts
                /\ \A n \in 1..numParts :
                      /\ crops[n][1] = (n - 1) * partHeight
                      /\ crops[n][1] + crops[n][2] = Min(n * partHeight, H)
                      /\ crops[n][2] >= 0
                /\ crops[1][1] = 0
                /\ \A n \in 2..numParts : crops[n][1] = crops[n - 1][1] + crops[n - 1][2]
                /\ crops[numParts][1] + crops[numParts][2] = H
                /\ C12_Sum(crops) = H
                /\ names # Undefined
                /\ Len(names[1]) = numParts
                /\ \A n \in 1..numParts :
                      names[1][n] = "example-com-page2.desktop.part" \o ToString(n)
                                        \o "of" \o ToString(numParts) \o ".png"
                /\ check[k].result[1].screenshot = Some(names[1][1])

\* a page of height 7 under the limit 3: bands of 3, 3 and 1
C12_Witness ==
    \E k \in DOMAIN check :
        /\ splitCapture(k, 7, 3)
        /\ check[k].crops = << <<0, 3>>, <<3, 3>>, <<6, 1>> >>
        /\ Len(check[k].result[1].screenshots[1]) = 3

\* C13: band height bound. Every band of a capture of a page of height
\* H > M, M >= 1, is at least 1 high and at most M high.
C13_BandHeightBound ==
    \A k \in DOMAIN check : \A H \in 1..(MaxHeight + 1) : \A M \in 1..(MaxM + 1) :
        splitCapture(k, H, M) =>
            /\ Len(check[k].crops) >= 2
            /\ \A n \in 1..Len(check[k].crops) :
                  check[k].crops[n][2] >= 1 /\ check[k].crops[n][2] <= M

\* a page of height 5 under the limit 4: two bands, of 3 and 2, both
\* lower than the limit
C13_Witness ==
    \E k \in DOMAIN check :
        /\ splitCapture(k, 5, 4)
        /\ check[k].crops = << <<0, 3>>, <<3, 2>> >>

\* a page check whose screenshot step ran to its end
captureDone(k) ==
    /\ settled(k)
    /\ check[k].caught = Undefined
    /\ "capture" \in check[k].calls

isTempRaster(name) == Len(name) >= 10 /\ SubSeq(name, 1, 10) = "temp-full-"

\* C15: transient raster cleanup. When a page check has returned, with or
\* without an exception in the capture, the output directory holds no
\* temporary full raster.
C15_RasterCleanup ==
    (\E k \in DOMAIN check : settled(k)) => \A name \in files : ~isTempRaster(name)

\* C16: job isolation. No path of the output directory (an artifact or the
\* temporary full raster) is written or deleted by two different jobs of
\* one batch.
C16_JobIsolation ==
    \A j, k \in DOMAIN check :
        (j # k /\ batchNo(j) = batchNo(k)) => check[j].touched \cap check[k].touched = {}

\* the value of field f that page p of the configuration resolves to: the
\* page's own where the page sets the field, the default's otherwise
resolvedField(p, f) ==
    IF f \in DOMAIN config.pages[p][2] THEN config.pages[p][2][f]
    ELSE config.default[f]

\* the fields set by the default or by page p
resolvedFields(p) == (DOMAIN config.default) \cup (DOMAIN config.pages[p][2])

RECURSIVE jobsUpTo(_)
\* the number of jobs of pages 1..p: the sum of their device counts
jobsUpTo(p) == IF p = 0 THEN 0 ELSE jobsUpTo(p - 1) + Len(resolvedField(p, "devices"))

\* the configuration has been expanded
expanded == mainPc # "start" /\ isValidConfig(config)

\* C17: job expansion. The job list has exactly the sum of the device
\* counts of the pages; the jobs of page p follow those of pages 1..p-1 and
\* come in the order of the page's device list; each job has its page's url
\* and the resolved config of its page.
C17_JobExpansion ==
    expanded =>
        /\ Len(jobs) = jobsUpTo(Len(config.pages))
        /\ \A p \in 1..Len(config.pages) :
              \A d \in 1..Len(resolvedField(p, "devices")) :
                 LET job == jobs[jobsUpTo(p - 1) + d]
                 IN  /\ job.url = config.pages[p][1]
                     /\ job.device = resolvedField(p, "devices")[d]
                     /\ DOMAIN job.config = resolvedFields(p)
                     /\ \A f \in resolvedFields(p) : job.config[f] = resolvedField(p, f)

\* one device from the default for page 1, two devices of its own for
\* page 2: three jobs
C17_Witness ==
    /\ expanded
    /\ Len(config.pages) = 2
    /\ Len(jobs) = 3
    /\ jobs[1].device = "desktop"
    /\ jobs[2].device = "mobile"
    /\ jobs[3].device = "iPad Pro"
    /\ jobs[3].url = PageUrl(2)

\* main has stopped with "No pages configured": it exited with status 1
\* before the browser was launched
noPagesError ==
    /\ isValidConfig(config)
    /\ mainPc = "exited"
    /\ browser = "none"
    /\ exitCode = Some(1)

\* C18: empty-devices edge case. A page whose resolved device list is empty
\* has no job, and the run stops with "No pages configured" exactly when
\* the page map of the configuration has no entry.
C18_EmptyDevices ==
    expanded =>
        /\ \A p \in 1..Len(config.pages) :
              resolvedField(p, "devices") = <<>> =>
                  \A k \in 1..Len(jobs) : jobs[k].url # config.pages[p][1]
        /\ (mainPc = "exited" /\ Len(config.pages) > 0) => ~noPagesError
        /\ Len(config.pages) = 0 => noPagesError

\* C19: merge determinism. The config of every job equals its page's
\* override O on every field O sets and the default D on every field O
\* does not set, and has no other field; a list set by O is taken as it
\* is, without the elements of D's list.
C19_MergeDeterminism ==
    expanded =>
        \A k \in 1..Len(jobs) : \A p \in 1..Len(config.pages) :
            jobs[k].url = config.pages[p][1] =>
                LET D == config.default
                    O == config.pages[p][2]
                    merged == jobs[k].config
                IN  /\ DOMAIN merged = (DOMAIN D) \cup (DOMAIN O)
                    /\ \A f \in DOMAIN O : merged[f] = O[f]
                    /\ \A f \in (DOMAIN D) \ (DOMAIN O) : merged[f] = D[f]

\* a job of a page that sets two lists over a default with one device: the
\* lists are the page's, the timeout is the default's
C19_Witness ==
    /\ expanded
    /\ config.default.devices = <<"desktop">>
    /\ \E k \in 1..Len(jobs) :
          /\ jobs[k].config.devices = <<"mobile", "iPad Pro">>
          /\ jobs[k].config.requiredSelectors = <<"form">>
          /\ jobs[k].config.timeoutMs = config.default.timeoutMs
          /\ ~jobs[k].config.abortIfFail

\* the number of results of the result list with success false
failedResults == Cardinality({n \in 1..Len(results) : ~results[n].success})

C21_NavigationFailure ==
    \A k \in DOMAIN check :
        check[k].navigated = "throw" =>
            /\ settled(k)
            /\ check[k].caught # Undefined
            /\ Len(check[k].result[1].errors) = 1
            /\ check[k].caught = Some(TimeoutError) =>
                  check[k].result[1].errors = <<"Timeout exceeded">>
            /\ check[k].caught = Some(NetError) =>
                  check[k].result[1].errors = <<"page.goto: net::ERR_CONNECTION_REFUSED">>
            /\ ~check[k].result[1].success
            /\ check[k].result[1].warnings = <<>>
            /\ check[k].result[1].screenshot = Undefined
            /\ check[k].result[1].screenshots = Undefined
            /\ check[k].calls = {}
            /\ check[k].touched = {}
            /\ (Len(jobs) = 1 => files = {})

\* a refused connection after both observers had recorded findings: the
\* one error is the raw message
C21_Witness ==
    \E k \in DOMAIN check :
        /\ settled(k)
        /\ check[k].navigated = "throw"
        /\ check[k].caught = Some(NetError)
        /\ Len(check[k].consoleErrors) > 0
        /\ Len(check[k].networkFailures) > 0
        /\ check[k].result[1].errors = <<NetError.message>>

\* page.goto gave job k a response with status 200
status200(k) == check[k].navigated = "response" /\ check[k].response = Some(200)

\* C22: capture is not gated on pass/fail. The screenshot step is reached
\* only after a response with status 200, and after such a response it is
\* reached whatever errors the content checks appended (only an exception
\* that ends the job before it keeps a returned job from it); when it ran
\* to its end the result has its screenshot and the file is written, also
\* for a job with content errors.
C22_CaptureNotGated ==
    \A k \in DOMAIN check :
        /\ "capture" \in check[k].calls => status200(k)
        /\ (settled(k) /\ status200(k) /\ check[k].caught = Undefined) =>
              "capture" \in check[k].calls
        /\ captureDone(k) =>
              /\ check[k].result[1].screenshot # Undefined
              /\ check[k].result[1].screenshot[1] \in files

\* a job with status 200, a console error and a missing selector: failed,
\* and its screenshot taken
C22_Witness ==
    \E k \in DOMAIN check :
        /\ captureDone(k)
        /\ status200(k)
        /\ check[k].consulted.console > 0
        /\ Len(check[k].result[1].errors) >= 2
        /\ ~check[k].result[1].success
        /\ check[k].result[1].screenshot # Undefined
        /\ check[k].result[1].screenshot[1] \in files

RECURSIVE C23_Joined(_)
\* the findings of a log, separated by "; "
C23_Joined(log) ==
    IF Len(log) = 1 THEN log[1] ELSE log[1] \o "; " \o C23_Joined(Tail(log))

RECURSIVE C23_Missing(_, _)
\* one entry for each selector that is not in the DOM, in the given order
C23_Missing(selectors, dom) ==
    IF selectors = <<>> THEN <<>>
    ELSE IF Head(selectors) \in dom THEN C23_Missing(Tail(selectors), dom)
    ELSE <<"Missing selector: " \o Head(selectors)>> \o C23_Missing(Tail(selectors), dom)

\* the content errors of job k: from its two logs as they were when the
\* findings were read, and the selectors missing
C23_ContentErrors(k) ==
    LET console == SubSeq(check[k].consoleErrors, 1, check[k].consulted.console)
        network == SubSeq(check[k].networkFailures, 1, check[k].consulted.network)
    IN  (IF console # <<>>
         THEN <<"Console errors: " \o C23_Joined(console)>> ELSE <<>>)
        \o (IF network # <<>>
            THEN <<"Network failures: " \o C23_Joined(network)>> ELSE <<>>)
        \o C23_Missing(jobs[k].config.requiredSelectors, check[k].dom)

\* C23: content checks all run and report together. When the content
\* checks of a job with status 200 have run, its errors are, in this order:
\* one console entry exactly when the console log is not empty, one network
\* entry exactly when the network log is not empty, each with the findings
\* joined by "; ", and one "Missing selector" entry for each required
\* selector that is not in the DOM, in the order of requiredSelectors;
\* nothing else, but for the one error of an exception in the capture.
C23_ContentChecks ==
    \A k \in DOMAIN check :
        "capture" \in check[k].calls =>
            LET errors == check[k].result[1].errors
                content == C23_ContentErrors(k)
            IN  /\ status200(k)
                /\ check[k].caught = Undefined => errors = content
                /\ check[k].caught # Undefined =>
                      /\ Len(errors) = Len(content) + 1
                      /\ SubSeq(errors, 1, Len(content)) = content

\* a page error after the findings were read is in the log of the job and
\* not in its errors
C23_LateFinding ==
    \E k \in DOMAIN check :
        /\ captureDone(k)
        /\ check[k].consulted.console = 0
        /\ check[k].consoleErrors = <<"ReferenceError: y">>
        /\ check[k].result[1].errors = <<>>

\* a console finding, a network finding and a missing footer: three
\* errors in the order of the checks
C23_Witness ==
    \E k \in DOMAIN check :
        /\ captureDone(k)
        /\ Len(check[k].consoleErrors) = 1
        /\ Len(check[k].networkFailures) = 1
        /\ check[k].dom = {"#main"}
        /\ Len(check[k].result[1].errors) = 3
        /\ check[k].result[1].errors[3] = "Missing selector: footer"

RECURSIVE C24_NotVisible(_, _)
\* one warning for each waitFor selector that did not become visible, in order
C24_NotVisible(selectors, visible) ==
    IF selectors = <<>> THEN <<>>
    ELSE IF Head(selectors) \in visible THEN C24_NotVisible(Tail(selectors), visible)
    ELSE <<"waitFor selector not visible within 30s: " \o Head(selectors)>>
         \o C24_NotVisible(Tail(selectors), visible)

\* the navigation took more than 5000 ms
C24_Slow(k) == check[k].navigationTime > 5000

\* C24: warnings never fail a job. When the steps after a status-200
\* navigation have run, the warnings are one entry for each waitFor selector
\* that did not become visible, in waitFor order (the loop goes on after a
\* selector that timed out), followed by one slow-page warning exactly when
\* the navigation took more than 5000 ms (none at 5000 ms, "Slow page: 6.2s"
\* for 6240 ms). No warning is an entry of errors, and a returned job with
\* no errors has success = TRUE whatever its warnings are.
C24_WarningsNeverFail ==
    \A k \in DOMAIN check :
        /\ "capture" \in check[k].calls =>
              LET warnings == check[k].result[1].warnings
                  waits == C24_NotVisible(jobs[k].config.waitFor, check[k].visible)
              IN  /\ Len(warnings) = Len(waits) + (IF C24_Slow(k) THEN 1 ELSE 0)
                  /\ SubSeq(warnings, 1, Len(waits)) = waits
                  /\ check[k].navigationTime = 6240 =>
                        warnings[Len(warnings)] = "Slow page: 6.2s"
        /\ settled(k) =>
              /\ \A n \in DOMAIN check[k].result[1].errors :
                    \A m \in DOMAIN check[k].result[1].warnings :
                        check[k].result[1].errors[n] # check[k].result[1].warnings[m]
              /\ check[k].result[1].errors = <<>> => check[k].result[1].success

\* two waitFor selectors timed out and the navigation was slow: three
\* warnings, no error, success
C24_Witness ==
    \E k \in DOMAIN check :
        /\ captureDone(k)
        /\ check[k].result[1].warnings =
              << "waitFor selector not visible within 30s: .hero",
                 "waitFor selector not visible within 30s: .cta",
                 "Slow page: 6.2s" >>
        /\ check[k].result[1].errors = <<>>
        /\ check[k].result[1].success

\* a navigation of exactly 5000 ms with no waitFor timeout gives no warning
C24_AtThreshold ==
    \E k \in DOMAIN check :
        /\ captureDone(k)
        /\ check[k].navigationTime = 5000
        /\ check[k].result[1].warnings = <<>>

\* the events the checker ignores: the console noise of a 403 and the
\* responses of the analytics host
C25_Ignored(ev) ==
    \/ ev.text = "Failed to load resource: the server responded with a status of 403 ()"
    \/ ev.url = "https://www.google-analytics.com/c"

\* the error events of the console and runtime observer, and of the
\* network observer
C25_ConsoleError(ev) ==
    \/ ev.type = "console" /\ ev.level = "error"
    \/ ev.type = "pageerror"

C25_NetworkError(ev) ==
    \/ ev.type = "response" /\ ev.status >= 400
    \/ ev.type = "requestfailed"

RECURSIVE C25_ConsoleLog(_)
\* the console findings of a sequence of events, in event order
C25_ConsoleLog(events) ==
    IF events = <<>> THEN <<>>
    ELSE (IF C25_ConsoleError(Head(events)) /\ ~C25_Ignored(Head(events))
          THEN <<Head(events).text>> ELSE <<>>)
         \o C25_ConsoleLog(Tail(events))

RECURSIVE C25_NetworkLog(_)
\* the network findings of a sequence of events, in event order
C25_NetworkLog(events) ==
    IF events = <<>> THEN <<>>
    ELSE (IF C25_NetworkError(Head(events)) /\ ~C25_Ignored(Head(events))
          THEN <<IF Head(events).type = "response"
                 THEN ToString(Head(events).status) \o " " \o Head(events).url
                 ELSE "Failed: " \o Head(events).url>>
          ELSE <<>>)
         \o C25_NetworkLog(Tail(events))

RECURSIVE C25_Listed(_)
\* findings separated by "; "
C25_Listed(log) ==
    IF Len(log) = 1 THEN log[1] ELSE log[1] \o "; " \o C25_Listed(Tail(log))

\* log is new with zero or more entries appended to old
C25_Extends(new, old) ==
    Len(old) <= Len(new) /\ SubSeq(new, 1, Len(old)) = old

\* the addresses of the resources of the page of job j
C25_ResourcesOf(j) ==
    LET page == IF j = 1 THEN "https://example.com/"
                ELSE "https://example.com/page" \o ToString(j) \o "/"
    IN  { "404 " \o page \o "api", "Failed: " \o page \o "i.png" }

\* what the two logs of every job are, in every state
C25_Logs ==
    \A k \in DOMAIN check :
        LET c == check[k]
            window == c.heard
            all == c.heard \o c.late
        IN  \* the logs hold the findings of the events of the job's own
            \* page, each once and in event order, from the first event of
            \* the navigation on
            /\ c.consoleErrors = C25_ConsoleLog(all)
            /\ c.networkFailures = C25_NetworkLog(all)
            \* and nothing of the page of another job
            /\ \A j \in DOMAIN check \ {k} :
                  C25_ResourcesOf(j) \cap Range(c.networkFailures) = {}
            \* status 200: every finding of the events up to the end of
            \* the settle delay is in the reported errors
            /\ settled(k) /\ status200(k) =>
                  c.result[1].errors =
                      (IF C25_ConsoleLog(window) # <<>>
                       THEN <<"Console errors: " \o C25_Listed(C25_ConsoleLog(window))>>
                       ELSE <<>>)
                      \o (IF C25_NetworkLog(window) # <<>>
                          THEN <<"Network failures: "
                                 \o C25_Listed(C25_NetworkLog(window))>>
                          ELSE <<>>)
            \* any other status: the findings are not read
            /\ settled(k) /\ ~status200(k) => Len(c.result[1].errors) = 1

\* C25: observer window. The console/runtime and network observers are
\* attached before the navigation starts and append to logs of the job
\* alone: a step only ever appends to a log, each log holds exactly the
\* findings of the non-ignored error events of the job's own page in event
\* order, from the start of the navigation on, and never an event of the
\* page of another job; when the status is 200, every such event up to the
\* end of the settle delay is in the errors the job reports.
C25_ObserverWindow ==
    /\ []C25_Logs
    /\ [][\A k \in DOMAIN check \cap DOMAIN check' :
             /\ C25_Extends(check'[k].consoleErrors, check[k].consoleErrors)
             /\ C25_Extends(check'[k].networkFailures, check[k].networkFailures)]_vars

\* one job is still navigating and has heard an ignored event and logged
\* an error of its page; the other heard a failing resource before its
\* settle delay ended and a failed request after it, and reports the one
\* in time
C25_Witness ==
    /\ DOMAIN check = {1, 2}
    /\ check[1].pc = "navigating"
    /\ Len(check[1].heard) = 2
    /\ check[1].consoleErrors = <<"ReferenceError: y">>
    /\ check[1].networkFailures = <<>>
    /\ captureDone(2)
    /\ Len(check[2].heard) = 1
    /\ check[2].late # <<>>
    /\ check[2].networkFailures =
          <<"404 https://example.com/page2/api", "Failed: https://example.com/page2/i.png">>
    /\ check[2].result[1].errors = <<"Network failures: 404 https://example.com/page2/api">>

\* C26: even split. In a capture of a page of height H > M in numParts =
\* ceil(H / M) bands, every band but the last is exactly partHeight =
\* ceil(H / numParts) high, and the last band, of height
\* H - (numParts - 1) * partHeight, is at least 1 high and shorter than
\* partHeight by less than numParts.
C26_EvenSplit ==
    \A k \in DOMAIN check : \A H \in 1..(MaxHeight + 1) : \A M \in 1..(MaxM + 1) :
        splitCapture(k, H, M) =>
            LET numParts == C12_Ceiling(H, M)
                partHeight == C12_Ceiling(H, numParts)
                crops == check[k].crops
                last == crops[Len(crops)][2]
            IN  /\ Len(crops) = numParts
                /\ \A n \in 1..(numParts - 1) : crops[n][2] = partHeight
                /\ last = H - (numParts - 1) * partHeight
                /\ last >= 1
                /\ last <= partHeight
                /\ partHeight - last < numParts

\* a page of height 9 under the limit 4: three bands of 3, not 4, 4 and 1
C26_Witness ==
    \E k \in DOMAIN check :
        /\ splitCapture(k, 9, 4)
        /\ check[k].crops = << <<0, 3>>, <<3, 3>>, <<6, 3>> >>

\* a page of height 7 under the limit 3: the last band is as short as the
\* bound allows, 2 shorter than the others with 3 parts
C26_ShortestLast ==
    \E k \in DOMAIN check :
        /\ splitCapture(k, 7, 3)
        /\ check[k].crops[3][2] = 1
        /\ check[k].crops[1][2] = 3

====
